---- MODULE Spec2Model ----
(***************************************************************************)
(* The Moka IR lifter of mokapot: the Argument value lattice, the control  *)
(* flow graph container, the abstract JVM frame and the worklist analysis  *)
(* that MokaIRGenerator runs over a method body.                           *)
(***************************************************************************)
EXTENDS Integers, Sequences, FiniteSets, TLC

VARIABLES
    method,              \* the Method handed to generate_moka_ir
    phase,               \* position inside generate_moka_ir
    facts,               \* driver: ProgramCounter -> JvmStackFrame
    dirty,               \* driver: locations still to analyse
    ir_instructions,     \* MokaIRGenerator.ir_instructions
    control_flow_edges,  \* MokaIRGenerator.control_flow_edges
    transfers,           \* how many times analyze_location has been called
    result,              \* what generate_moka_ir handed back
    call,                \* a library function called on its own: its inputs
    ret                  \* ... and the value it returned

vars == <<method, phase, facts, dirty, ir_instructions, control_flow_edges,
          transfers, result, call, ret>>

\* ------------------------------------------------------------------ bounds
\* Identifiers used by the Argument checks: This and Arg(0..MaxArgIndex).
MaxArgIndex == 1
\* Edge lists handed to from_edges hold at most MaxEdges edges over 0..MaxNode.
MaxEdges == 3
MaxNode == 1
\* Generated method bodies have their instructions at keys within 0..MaxPC and
\* jump within 0..MaxPC.
MaxPC == 1
\* max_stack and max_locals of the generated method bodies
MaxStack == 2
MaxLocals == 1
\* Exception tables handed to exception_edges on its own: entries per table,
\* and the last PC a range can end at
MaxEntries == 3
MaxEnd == 1
\* Switch instructions handed to Display: at most MaxBranches branches with keys
\* in -1..MaxKey
MaxBranches == 2
MaxKey == 1
\* Instruction lists looked up on their own have their keys within 0..MaxListPC
MaxListPC == 3
\* Method descriptors handed to from_str have at most MaxParams parameters
MaxParams == 2

\* ------------------------------------------------------------ small helpers
Range(s) == {s[i] : i \in 1..Len(s)}

SeqsUpTo(S, n) == UNION {[1..k -> S] : k \in 0..n}

Min(S) == CHOOSE x \in S : \A y \in S : x <= y

\* f with key k bound to v (BTreeMap::insert)
MapPut(f, k, v) == [x \in (DOMAIN f) \cup {k} |-> IF x = k THEN v ELSE f[x]]

EmptyMap == [x \in {} |-> 0]

\* ------------------------------------------------------- Identifier, Argument
This == [k |-> "This", i |-> 0]
Arg(n) == [k |-> "Arg", i |-> n]
Def(pc) == [k |-> "Def", i |-> pc]
CaughtException == [k |-> "CaughtException", i |-> 0]

\* Argument::Id(x) and Argument::Phi(S); an Id keeps its identifier in a
\* one-element set so that one field holds the identifiers of both forms.
Id(x) == [t |-> "Id", ids |-> {x}]
Phi(S) == [t |-> "Phi", ids |-> S]

\* impl BitOr for Argument, with the operands' order deciding the result.
bitor_left(lhs, rhs) ==
    IF lhs.t = "Id" /\ rhs.t = "Id" /\ lhs.ids = rhs.ids THEN lhs
    ELSE IF lhs.t = "Id" /\ rhs.t = "Phi" THEN rhs
    ELSE Phi(lhs.ids \cup rhs.ids)

\* impl BitOr for Argument keeping the left operand
bitor_first(lhs, rhs) == lhs

\* impl BitOr for Argument
bitor(lhs, rhs) ==
    CASE lhs.t = "Id" /\ rhs.t = "Id" /\ lhs.ids = rhs.ids -> lhs
      [] lhs.t = "Id" /\ rhs.t = "Id" /\ lhs.ids # rhs.ids ->
            Phi(lhs.ids \cup rhs.ids)
      [] lhs.t = "Id" /\ rhs.t = "Phi" -> Phi(rhs.ids \cup lhs.ids)
      [] lhs.t = "Phi" /\ rhs.t = "Id" -> Phi(lhs.ids \cup rhs.ids)
      [] lhs.t = "Phi" /\ rhs.t = "Phi" -> Phi(lhs.ids \cup rhs.ids)

\* impl IntoIterator for Argument, collected
identifiers(a) == a.ids

\* ------------------------------------------------------- ControlFlowGraph
\* inner: BTreeMap<ProgramCounter, (N, BTreeMap<ProgramCounter, E>)>; the node
\* data is () and is left out, so inner[n] is the map of n's outgoing edges.
NoGraph == [panicked |-> FALSE, inner |-> EmptyMap]

\* inner.entry(n).or_default()
or_default(inner, n) == IF n \in DOMAIN inner THEN inner ELSE MapPut(inner, n, EmptyMap)

\* One call of the closure of from_edges, without the assertion.
insert_edge_unchecked(g, e) ==
    LET src == e[1]
        dst == e[2]
        in1 == or_default(g.inner, src)
        in2 == MapPut(in1, src, MapPut(in1[src], dst, e[3]))
    IN [panicked |-> g.panicked, inner |-> or_default(in2, dst)]

\* One call of the closure of from_edges on the edge (src, dst, data).
insert_edge(g, e) ==
    LET src == e[1]
        dst == e[2]
        in1 == or_default(g.inner, src)
        fresh == dst \notin DOMAIN in1[src]
        in2 == MapPut(in1, src, MapPut(in1[src], dst, e[3]))
    IN IF g.panicked THEN g
       ELSE IF ~fresh THEN [panicked |-> TRUE, inner |-> in2]
       ELSE [panicked |-> FALSE, inner |-> or_default(in2, dst)]

RECURSIVE fold_edges(_, _)
fold_edges(g, es) ==
    IF es = <<>> THEN g ELSE fold_edges(insert_edge(g, Head(es)), Tail(es))

\* ControlFlowGraph::from_edges on the edges in iteration order
from_edges(es) == fold_edges(NoGraph, es)

\* The elements of a set of ProgramCounters in ascending order (BTreeMap
\* iteration order).
RECURSIVE ascending(_)
ascending(S) == IF S = {} THEN <<>> ELSE <<Min(S)>> \o ascending(S \ {Min(S)})

RECURSIVE concat(_)
concat(ss) == IF ss = <<>> THEN <<>> ELSE Head(ss) \o concat(Tail(ss))

\* ControlFlowGraph::nodes yielding only the nodes that have an outgoing edge
nodes_with_edges(g) == ascending({n \in DOMAIN g.inner : DOMAIN g.inner[n] # {}})

\* ControlFlowGraph::nodes, as the sequence the iterator yields
nodes(g) == ascending(DOMAIN g.inner)

\* ControlFlowGraph::edges_from(src), as the sequence the iterator yields
edges_from(g, src) ==
    LET ds == ascending(DOMAIN g.inner[src])
    IN [i \in 1..Len(ds) |-> <<src, ds[i], g.inner[src][ds[i]]>>]

\* ControlFlowGraph::edges, as the sequence the iterator yields
edges(g) ==
    LET ns == nodes(g)
    IN concat([i \in 1..Len(ns) |-> edges_from(g, ns[i])])

\* ControlFlowGraph::exits without the filter on the outgoing edges
exits_unfiltered(g) == nodes(g)

\* ControlFlowGraph::exits, as the sequence the iterator yields
exits(g) ==
    LET ns == nodes(g)
    IN SelectSeq(ns, LAMBDA n : DOMAIN g.inner[n] = {})

\* ControlFlowGraph::entry_point
entry_point(g) == 0

\* ControlTransfer
Unconditional == [ct |-> "Unconditional", classes |-> <<>>]
Conditional == [ct |-> "Conditional", classes |-> <<>>]
Exception(cs) == [ct |-> "Exception", classes |-> cs]
SubroutineReturn == [ct |-> "SubroutineReturn", classes |-> <<>>]

\* ------------------------------------------------------------ fallible values
\* Result<T, E>: err names the error ("None" when the value is there).
Ok(v) == [err |-> "None", v |-> v]
Err(e) == [err |-> e, v |-> 0]
IsOk(r) == r.err = "None"

\* ------------------------------------------------------------ JvmStackFrame
NoArg == [t |-> "None", ids |-> {}]

\* Entry: a slot of the locals or of the operand stack
Top == [e |-> "Top", arg |-> NoArg, pc |-> 0]
Value(a) == [e |-> "Value", arg |-> a, pc |-> 0]
ReturnAddress(p) == [e |-> "ReturnAddress", arg |-> NoArg, pc |-> p]

\* JvmStackFrame::new: the entry frame of a method with `params` one-slot
\* parameters.
new_frame(is_static, params, max_locals, max_stack) ==
    LET this == IF is_static THEN <<>> ELSE <<Value(Id(This))>>
        args == [i \in 1..params |-> Value(Id(Arg(i - 1)))]
        used == this \o args
    IN IF Len(used) > max_locals THEN Err("ExecutionError")
       ELSE Ok([locals |-> used \o [i \in 1..(max_locals - Len(used)) |-> Top],
                operand_stack |-> <<>>,
                possible_ret_addresses |-> {},
                max_stack |-> max_stack])

\* JvmStackFrame::same_frame
same_frame(frame) == frame

\* JvmStackFrame::same_locals_1_stack_item_frame
same_locals_1_stack_item_frame(frame, entry) ==
    [frame EXCEPT !.operand_stack = <<entry>>]

\* JvmStackFrame::push of a one-slot entry
push(frame, entry) ==
    IF Len(frame.operand_stack) >= frame.max_stack THEN Err("ExecutionError")
    ELSE Ok([frame EXCEPT !.operand_stack = Append(@, entry)])

\* JvmStackFrame::pop of a one-slot entry: v is <<entry, frame>>
pop(frame) ==
    LET n == Len(frame.operand_stack)
    IN IF n = 0 \/ frame.operand_stack[n].e = "Top" THEN Err("ExecutionError")
       ELSE Ok(<<frame.operand_stack[n],
                 [frame EXCEPT !.operand_stack = SubSeq(@, 1, n - 1)]>>)

\* JvmStackFrame::pop of a Value entry
pop_value(frame) ==
    LET r == pop(frame)
    IN IF IsOk(r) /\ r.v[1].e # "Value" THEN Err("ExecutionError") ELSE r

\* JvmStackFrame::get_local
get_local(frame, idx) ==
    IF idx + 1 > Len(frame.locals) \/ frame.locals[idx + 1].e = "Top"
    THEN Err("ExecutionError")
    ELSE Ok(frame.locals[idx + 1])

\* JvmStackFrame::set_local of a one-slot entry
set_local(frame, idx, entry) ==
    IF idx + 1 > Len(frame.locals) THEN Err("ExecutionError")
    ELSE Ok([frame EXCEPT !.locals[idx + 1] = entry])

\* The merge table of one slot
merge_entry(a, b) ==
    CASE a.e = "Top" \/ b.e = "Top" -> Ok(Top)
      [] a.e = "ReturnAddress" /\ b.e = "ReturnAddress" ->
            IF a.pc = b.pc THEN Ok(a) ELSE Err("ExecutionError")
      [] a.e = "Value" /\ b.e = "Value" -> Ok(Value(bitor(a.arg, b.arg)))
      [] OTHER -> Err("ExecutionError")

\* JvmStackFrame::merge
merge(a, b) ==
    IF Len(a.operand_stack) # Len(b.operand_stack) \/ Len(a.locals) # Len(b.locals)
    THEN Err("ExecutionError")
    ELSE LET ls == [i \in 1..Len(a.locals) |-> merge_entry(a.locals[i], b.locals[i])]
             st == [i \in 1..Len(a.operand_stack) |->
                        merge_entry(a.operand_stack[i], b.operand_stack[i])]
         IN IF \E i \in 1..Len(ls) : ~IsOk(ls[i]) THEN Err("ExecutionError")
            ELSE IF \E i \in 1..Len(st) : ~IsOk(st[i]) THEN Err("ExecutionError")
            ELSE Ok([locals |-> [i \in 1..Len(ls) |-> ls[i].v],
                     operand_stack |-> [i \in 1..Len(st) |-> st[i].v],
                     possible_ret_addresses |->
                         a.possible_ret_addresses \cup b.possible_ret_addresses,
                     max_stack |-> a.max_stack])

\* MokaIRGenerator::merge_facts keeping only the incoming fact
merge_facts_incoming(current_fact, incoming_fact) == Ok(incoming_fact)

\* MokaIRGenerator::merge_facts without the map_err
merge_facts_unmapped(current_fact, incoming_fact) == merge(current_fact, incoming_fact)

\* MokaIRGenerator::merge_facts
merge_facts(current_fact, incoming_fact) ==
    LET r == merge(current_fact, incoming_fact)
    IN IF IsOk(r) THEN r ELSE Err("MergeError")

\* ------------------------------------------------------ Instruction (input)
Insn(op) == [op |-> op, target |-> 0, index |-> 0, branches |-> <<>>]
Nop == Insn("Nop")
IConst0 == Insn("IConst0")
IConst1 == Insn("IConst1")
IConstM1 == Insn("IConstM1")
GetField == Insn("GetField")
IReturn == Insn("IReturn")
ILoad(n) == [Insn("ILoad") EXCEPT !.index = n]
IStore(n) == [Insn("IStore") EXCEPT !.index = n]
IfGe(t) == [Insn("IfGe") EXCEPT !.target = t]
Return == Insn("Return")
AReturn == Insn("AReturn")
AThrow == Insn("AThrow")
ALoad(n) == [Insn("ALoad") EXCEPT !.index = n]
AStore(n) == [Insn("AStore") EXCEPT !.index = n]
Ret(n) == [Insn("Ret") EXCEPT !.index = n]
Goto(t) == [Insn("Goto") EXCEPT !.target = t]
IfNull(t) == [Insn("IfNull") EXCEPT !.target = t]
Jsr(t) == [Insn("Jsr") EXCEPT !.target = t]
\* target is the default; branches are the (key, target) pairs in declared order
LookupSwitch(default, match_targets) ==
    [Insn("LookupSwitch") EXCEPT !.target = default, !.branches = match_targets]

\* ------------------------------------------------------ InstructionList
\* InstructionList::entry_point, the key only: <<>> stands for None
list_entry_point(instructions) ==
    IF DOMAIN instructions = {} THEN <<>> ELSE <<Min(DOMAIN instructions)>>

\* InstructionList::get: <<>> stands for None
list_get(instructions, pc) ==
    IF pc \in DOMAIN instructions THEN <<instructions[pc]>> ELSE <<>>

\* InstructionList::entry_point, key and instruction: <<>> stands for None
list_first_key_value(instructions) ==
    LET k == list_entry_point(instructions)
    IN IF k = <<>> THEN <<>> ELSE <<<<k[1], instructions[k[1]]>>>>

\* InstructionList::next_pc_of over the range that includes pc
list_next_pc_of_included(instructions, pc) ==
    LET later == {k \in DOMAIN instructions : k >= pc}
    IN IF later = {} THEN <<>> ELSE <<Min(later)>>

\* InstructionList::next_pc_of: <<>> stands for None
list_next_pc_of(instructions, pc) ==
    LET later == {k \in DOMAIN instructions : k > pc}
    IN IF later = {} THEN <<>> ELSE <<Min(later)>>

\* MethodBody::instruction_at: <<>> stands for None
instruction_at(body, pc) ==
    IF pc \in DOMAIN body.instructions THEN <<body.instructions[pc]>> ELSE <<>>

\* MokaIRGenerator::next_pc_of answering pc itself after the last instruction
next_pc_of_or_self(body, pc) ==
    LET n == list_next_pc_of(body.instructions, pc)
    IN IF n = <<>> THEN Ok(pc) ELSE Ok(n[1])

\* MokaIRGenerator::next_pc_of
next_pc_of(body, pc) ==
    LET n == list_next_pc_of(body.instructions, pc)
    IN IF n = <<>> THEN Err("MalformedControlFlow") ELSE Ok(n[1])

\* ExceptionTableEntry
Handler(start, end, handler_pc, catch_type) ==
    [start |-> start, end |-> end, handler_pc |-> handler_pc, catch_type |-> catch_type]

\* ExceptionTableEntry::covers
covers(entry, pc) == entry.start <= pc /\ pc <= entry.end

\* ------------------------------------------------------ MokaInstruction
\* One record shape for all variants; args holds the operands (an Option as a
\* sequence of length 0 or 1).
IR(kind) == [ir |-> kind, def |-> 0, expr |-> "None", args |-> <<>>,
             conditional |-> FALSE, target |-> 0, branches |-> <<>>,
             return_address |-> 0]
IRNop == IR("Nop")
IRDefinition(pc, expr, args) ==
    [IR("Definition") EXCEPT !.def = pc, !.expr = expr, !.args = args]
IRSubroutine(pc, target, return_address) ==
    [IR("Definition") EXCEPT !.def = pc, !.expr = "Subroutine", !.target = target,
                             !.return_address = return_address]
IRJump(condition, target) ==
    [IR("Jump") EXCEPT !.conditional = (condition # <<>>), !.args = condition,
                       !.target = target]
IRSwitch(match_value, default, branches) ==
    [IR("Switch") EXCEPT !.args = <<match_value>>, !.target = default,
                         !.branches = branches]
IRReturn(value) == [IR("Return") EXCEPT !.args = value]
IRSubroutineRet(return_address) ==
    [IR("SubroutineRet") EXCEPT !.return_address = return_address]

\* ------------------------------------------------------ instruction semantics
\* v of the result is <<MokaInstruction, frame after the instruction>>
Ran(ir, frame) == Ok(<<ir, frame>>)

\* One operand popped as a Value, then `then(arg, frame)`.
WithValue(frame, then(_, _)) ==
    LET r == pop_value(frame)
    IN IF IsOk(r) THEN then(r.v[1].arg, r.v[2]) ELSE Err("ExecutionError")

\* MokaIRGenerator::run_instruction
run_instruction(body, insn, pc, frame) ==
    CASE insn.op = "Nop" -> Ran(IRNop, frame)
      [] insn.op \in {"IConst0", "IConst1", "IConstM1"} ->
            LET r == push(frame, Value(Id(Def(pc))))
            IN IF IsOk(r) THEN Ran(IRDefinition(pc, "Const", <<>>), r.v) ELSE r
      [] insn.op = "GetField" ->
            WithValue(frame,
                      LAMBDA a, f :
                          LET r == push(f, Value(Id(Def(pc))))
                          IN IF IsOk(r) THEN Ran(IRDefinition(pc, "Field", <<a>>), r.v)
                             ELSE r)
      [] insn.op \in {"ALoad", "ILoad"} ->
            LET l == get_local(frame, insn.index)
            IN IF ~IsOk(l) \/ l.v.e # "Value" THEN Err("ExecutionError")
               ELSE LET r == push(frame, l.v)
                    IN IF IsOk(r) THEN Ran(IRNop, r.v) ELSE r
      [] insn.op \in {"AStore", "IStore"} ->
            LET r == pop(frame)
            IN IF ~IsOk(r) \/ (insn.op = "IStore" /\ r.v[1].e # "Value")
               THEN Err("ExecutionError")
               ELSE LET w == set_local(r.v[2], insn.index, r.v[1])
                    IN IF IsOk(w) THEN Ran(IRNop, w.v) ELSE w
      [] insn.op = "Return" -> Ran(IRReturn(<<>>), frame)
      [] insn.op \in {"AReturn", "IReturn"} ->
            WithValue(frame, LAMBDA a, f : Ran(IRReturn(<<a>>), f))
      [] insn.op = "AThrow" ->
            WithValue(frame, LAMBDA a, f : Ran(IRDefinition(pc, "Throw", <<a>>), f))
      [] insn.op = "Goto" -> Ran(IRJump(<<>>, insn.target), frame)
      [] insn.op \in {"IfNull", "IfGe"} ->
            WithValue(frame, LAMBDA a, f : Ran(IRJump(<<a>>, insn.target), f))
      [] insn.op = "LookupSwitch" ->
            WithValue(frame,
                      LAMBDA a, f : Ran(IRSwitch(a, insn.target, insn.branches), f))
      [] insn.op = "Jsr" ->
            LET n == next_pc_of(body, pc)
            IN IF ~IsOk(n) THEN n
               ELSE LET r == push(frame, ReturnAddress(n.v))
                    IN IF IsOk(r) THEN Ran(IRSubroutine(pc, insn.target, n.v), r.v)
                       ELSE r
      [] insn.op = "Ret" ->
            LET l == get_local(frame, insn.index)
            IN IF ~IsOk(l) \/ l.v.e # "ReturnAddress" THEN Err("ExecutionError")
               ELSE Ran(IRSubroutineRet(l.v.pc), frame)

\* ------------------------------------------------------ MokaIRGenerator
Throwable == "java/lang/Throwable"

\* Itertools::dedup: consecutive equal elements collapse to one
RECURSIVE dedup(_)
dedup(s) ==
    IF Len(s) <= 1 THEN s
    ELSE IF s[1] = s[2] THEN dedup(Tail(s))
    ELSE <<s[1]>> \o dedup(Tail(s))

\* MokaIRGenerator::exception_edges handing the handler the frame as it is
exception_edges_same_frame(exception_table, pc, frame) ==
    LET covering == SelectSeq(exception_table, LAMBDA it : covers(it, pc))
        handlers == ascending({covering[i].handler_pc : i \in 1..Len(covering)})
    IN [i \in 1..Len(handlers) |->
            <<<<pc, handlers[i], Exception(<<Throwable>>)>>, same_frame(frame)>>]

\* MokaIRGenerator::exception_edges: a sequence of <<edge, handler frame>>
exception_edges(exception_table, pc, frame) ==
    LET covering == SelectSeq(exception_table, LAMBDA it : covers(it, pc))
        handlers == ascending({covering[i].handler_pc : i \in 1..Len(covering)})
        group(h) == SelectSeq(covering, LAMBDA it : it.handler_pc = h)
        classes(h) ==
            LET g == group(h)
            IN dedup([i \in 1..Len(g) |->
                        IF g[i].catch_type = "None" THEN Throwable
                        ELSE g[i].catch_type])
    IN [i \in 1..Len(handlers) |->
            <<<<pc, handlers[i], Exception(classes(handlers[i]))>>,
              same_locals_1_stack_item_frame(frame, Value(Id(CaughtException)))>>]

\* The Subroutine arm without the insertion of the return address
subroutine_edges_unrecorded(location, ir_instruction, frame) ==
    Ok(<<<<<<location, ir_instruction.target, Unconditional>>, frame>>>>)

\* The Definition { expr: Subroutine } arm of analyze_location
subroutine_edges(location, ir_instruction, frame) ==
    Ok(<<<<<<location, ir_instruction.target, Unconditional>>,
           [frame EXCEPT !.possible_ret_addresses =
                              @ \cup {ir_instruction.return_address}]>>>>)

\* The Jump arm with the edge to the target only
jump_edges_target_only(body, location, ir_instruction, frame) ==
    Ok(<<<<<<location, ir_instruction.target,
             IF ir_instruction.conditional THEN Conditional ELSE Unconditional>>,
           same_frame(frame)>>>>)

\* The Jump arm of analyze_location
jump_edges(body, location, ir_instruction, frame) ==
    IF ir_instruction.conditional
    THEN LET n == next_pc_of(body, location)
         IN IF IsOk(n)
            THEN Ok(<<<<<<location, ir_instruction.target, Conditional>>,
                        same_frame(frame)>>,
                      <<<<location, n.v, Conditional>>, same_frame(frame)>>>>)
            ELSE n
    ELSE Ok(<<<<<<location, ir_instruction.target, Unconditional>>,
                same_frame(frame)>>>>)

\* The Switch arm without the default target
switch_edges_no_default(location, ir_instruction, frame) ==
    Ok([i \in 1..Len(ir_instruction.branches) |->
           <<<<location, ir_instruction.branches[i][2], Conditional>>,
             same_frame(frame)>>])

\* The Switch arm of analyze_location: the branch targets in key order, then
\* the default
switch_edges(location, ir_instruction, frame) ==
    LET ts == [i \in 1..Len(ir_instruction.branches) |->
                    ir_instruction.branches[i][2]]
              \o <<ir_instruction.target>>
    IN Ok([i \in 1..Len(ts) |->
              <<<<location, ts[i], Conditional>>, same_frame(frame)>>])

\* The SubroutineRet arm reading the return addresses without taking them
subroutine_ret_edges_kept(location, frame) ==
    LET rs == ascending(frame.possible_ret_addresses)
    IN Ok([i \in 1..Len(rs) |->
              <<<<location, rs[i], SubroutineReturn>>, same_frame(frame)>>])

\* The SubroutineRet arm of analyze_location
subroutine_ret_edges(location, frame) ==
    LET rs == ascending(frame.possible_ret_addresses)
        taken == [frame EXCEPT !.possible_ret_addresses = {}]
    IN Ok([i \in 1..Len(rs) |->
              <<<<location, rs[i], SubroutineReturn>>, same_frame(taken)>>])

\* The Nop arm of analyze_location
nop_edges(body, location, frame) ==
    LET n == next_pc_of(body, location)
    IN IF IsOk(n) THEN Ok(<<<<<<location, n.v, Unconditional>>, frame>>>>) ELSE n

\* The Definition arm without the exception edges
definition_edges_unhandled(body, location, frame) == nop_edges(body, location, frame)

\* The Definition arm of analyze_location for an expression that is neither a
\* throw nor a subroutine call
definition_edges(body, location, frame) ==
    LET n == next_pc_of(body, location)
    IN IF IsOk(n)
       THEN Ok(exception_edges(body.exception_table, location, frame)
               \o <<<<<<location, n.v, Unconditional>>, frame>>>>)
       ELSE n

\* The match of analyze_location over the lifted instruction (lines 87-151)
edges_and_frames_of(body, location, ir_instruction, frame) ==
    CASE ir_instruction.ir = "Nop" -> nop_edges(body, location, frame)
      [] ir_instruction.ir = "Return" -> Ok(<<>>)
      [] ir_instruction.ir = "Definition" /\ ir_instruction.expr = "Throw" ->
            Ok(exception_edges(body.exception_table, location, frame))
      [] ir_instruction.ir = "Definition" /\ ir_instruction.expr = "Subroutine" ->
            subroutine_edges(location, ir_instruction, frame)
      [] ir_instruction.ir = "Definition"
            /\ ir_instruction.expr \notin {"Throw", "Subroutine"} ->
            definition_edges(body, location, frame)
      [] ir_instruction.ir = "Jump" ->
            jump_edges(body, location, ir_instruction, frame)
      [] ir_instruction.ir = "Switch" ->
            switch_edges(location, ir_instruction, frame)
      [] ir_instruction.ir = "SubroutineRet" ->
            subroutine_ret_edges(location, frame)

\* The unzip of analyze_location, first half, with the first pair skipped
affected_locations_skip(edges_and_frames) ==
    [i \in 1..(Len(edges_and_frames) - 1) |->
        <<edges_and_frames[i + 1][1][2], edges_and_frames[i + 1][2]>>]

\* The unzip of analyze_location, first half: the (location, fact) pairs
affected_locations_of(edges_and_frames) ==
    [i \in 1..Len(edges_and_frames) |->
        <<edges_and_frames[i][1][2], edges_and_frames[i][2]>>]

\* The unzip of analyze_location, second half, with the first edge skipped
edge_set_skip(edges_and_frames) ==
    {edges_and_frames[i][1] : i \in 2..Len(edges_and_frames)}

\* The unzip of analyze_location, second half: the HashSet of edges
edge_set_of(edges_and_frames) ==
    {edges_and_frames[i][1] : i \in 1..Len(edges_and_frames)}

\* self.ir_instructions.insert keeping the entry a location already has
insert_ir_once(instructions, location, ir_instruction) ==
    IF location \in DOMAIN instructions THEN instructions
    ELSE MapPut(instructions, location, ir_instruction)

\* self.ir_instructions.insert(location, ir_instruction) of analyze_location
insert_ir(instructions, location, ir_instruction) ==
    MapPut(instructions, location, ir_instruction)

\* MokaIRGenerator::analyze_location: the lifted instruction, the successors
\* (location, fact) in order, and the edges added to control_flow_edges
analyze_location(body, location, fact) ==
    LET frame == same_frame(fact)
        insn == instruction_at(body, location)
    IN IF insn = <<>> THEN Err("MalformedControlFlow")
       ELSE LET r == run_instruction(body, insn[1], location, frame)
            IN IF ~IsOk(r) THEN r
               ELSE LET ef == edges_and_frames_of(body, location, r.v[1], r.v[2])
                    IN IF ~IsOk(ef) THEN ef
                       ELSE Ok([ir_instruction |-> r.v[1],
                                affected_locations |-> affected_locations_of(ef.v),
                                edges |-> edge_set_of(ef.v)])

\* ------------------------------------------------------ fixed-point driver
\* The loop body's inner `for (s, new_fact) in successors`: st holds the facts,
\* the dirty set and the first error met.
RECURSIVE propagate(_, _)
propagate(st, successors) ==
    IF successors = <<>> \/ st.err # "None" THEN st
    ELSE LET s == Head(successors)[1]
             new_fact == Head(successors)[2]
         IN IF s \in DOMAIN st.facts
            THEN LET merged == merge_facts(st.facts[s], new_fact)
                 IN IF ~IsOk(merged)
                    THEN [st EXCEPT !.err = merged.err]
                    ELSE IF merged.v # st.facts[s]
                    THEN propagate([st EXCEPT !.facts = MapPut(@, s, merged.v),
                                              !.dirty = @ \cup {s}],
                                   Tail(successors))
                    ELSE propagate(st, Tail(successors))
            ELSE propagate([st EXCEPT !.facts = MapPut(@, s, new_fact),
                                      !.dirty = @ \cup {s}],
                           Tail(successors))

\* ------------------------------------------------------ outcomes
NoResult == [kind |-> "None", err |-> "None", instructions |-> EmptyMap,
             control_flow_graph |-> EmptyMap]
Failed(e) == [NoResult EXCEPT !.kind = "Err", !.err = e]
Panicked(msg) == [NoResult EXCEPT !.kind = "Panic", !.err = msg]
Lifted(instructions, g) ==
    [NoResult EXCEPT !.kind = "Ok", !.instructions = instructions,
                     !.control_flow_graph = g.inner]

NoCall == [fn |-> "None"]
NoRet == [fn |-> "None"]

\* ------------------------------------------------------ generate_moka_ir
\* MokaIRGenerator::for_method taking the body without looking for it
for_method_unchecked(m) == Ok(m.body)

\* MokaIRGenerator::for_method: the body the generator works on
for_method(m) == IF m.has_body THEN Ok(m.body) ELSE Err("NoMethodBody")

\* MokaIRGenerator::for_method and Analyzer::entry_fact, then the driver's
\* set-up: facts[entry] = entry fact, dirty = {entry}.
Begin ==
    /\ phase = "new"
    /\ IF ~IsOk(for_method(method))
       THEN /\ phase' = "done"
            /\ result' = Failed(for_method(method).err)
            /\ UNCHANGED <<facts, dirty>>
       ELSE LET body == for_method(method).v
                first_pc == list_entry_point(body.instructions)
                frame == new_frame(method.is_static, method.params,
                                   body.max_locals, body.max_stack)
            IN IF first_pc = <<>>
               THEN /\ phase' = "done"
                    /\ result' = Failed("MalformedControlFlow")
                    /\ UNCHANGED <<facts, dirty>>
               ELSE IF ~IsOk(frame)
               THEN /\ phase' = "done"
                    /\ result' = Failed(frame.err)
                    /\ UNCHANGED <<facts, dirty>>
               ELSE /\ phase' = "analyzing"
                    /\ facts' = MapPut(EmptyMap, first_pc[1], frame.v)
                    /\ dirty' = {first_pc[1]}
                    /\ UNCHANGED result
    /\ UNCHANGED <<method, ir_instructions, control_flow_edges, transfers, call, ret>>

\* One iteration of the driver's loop: the smallest dirty location is taken,
\* analysed, and its successors merged into the facts.
Analyze ==
    /\ phase = "analyzing"
    /\ dirty # {}
    /\ LET location == Min(dirty)
           r == analyze_location(method.body, location, facts[location])
       IN IF ~IsOk(r)
          THEN /\ phase' = "done"
               /\ result' = Failed(r.err)
               /\ dirty' = dirty \ {location}
               /\ UNCHANGED <<facts, ir_instructions, control_flow_edges>>
          ELSE LET st == propagate([facts |-> facts, dirty |-> dirty \ {location},
                                    err |-> "None"],
                                   r.v.affected_locations)
               IN /\ ir_instructions' = insert_ir(ir_instructions, location,
                                                  r.v.ir_instruction)
                  /\ control_flow_edges' = control_flow_edges \cup r.v.edges
                  /\ facts' = st.facts
                  /\ dirty' = st.dirty
                  /\ IF st.err # "None"
                     THEN phase' = "done" /\ result' = Failed(st.err)
                     ELSE UNCHANGED <<phase, result>>
    /\ transfers' = transfers + 1
    /\ UNCHANGED <<method, call, ret>>

\* All the orders in which a HashSet may hand out its elements
RECURSIVE orderings(_)
orderings(S) ==
    IF S = {} THEN {<<>>}
    ELSE UNION {{<<x>> \o s : s \in orderings(S \ {x})} : x \in S}

\* MokaIRGenerator::generate after analyze() returned Ok, and the wrapping of
\* its value by generate_moka_ir.
Generate ==
    /\ phase = "analyzing"
    /\ dirty = {}
    /\ \E es \in orderings(control_flow_edges) :
          LET cfg == from_edges(es)
          IN result' = IF cfg.panicked THEN Panicked("Duplicate edge")
                       ELSE Lifted(ir_instructions, cfg)
    /\ phase' = "done"
    /\ UNCHANGED <<method, facts, dirty, ir_instructions, control_flow_edges,
                   transfers, call, ret>>

\* ------------------------------------------------------ the methods lifted
PCs == 0..MaxPC

Body(max_stack, max_locals, instructions, exception_table) ==
    [max_stack |-> max_stack, max_locals |-> max_locals,
     instructions |-> instructions, exception_table |-> exception_table]

NoBody == Body(0, 0, EmptyMap, <<>>)

Method(is_static, params, body) ==
    [has_body |-> TRUE, is_static |-> is_static, params |-> params, body |-> body]

AbstractMethod == [has_body |-> FALSE, is_static |-> FALSE, params |-> 0, body |-> NoBody]

NativeMethod == [has_body |-> FALSE, is_static |-> TRUE, params |-> 1, body |-> NoBody]

\* A body without any instruction
EmptyBodyMethod == Method(TRUE, 1, Body(1, 1, EmptyMap, <<>>))

\* The instructions a generated body is made of
Alphabet ==
    {Nop, IConst0, Return, AReturn, AThrow, ALoad(0), AStore(0), Ret(0)}
    \cup {Goto(t) : t \in PCs} \cup {IfNull(t) : t \in PCs} \cup {Jsr(t) : t \in PCs}
    \cup {LookupSwitch(d, <<<<0, t>>>>) : d \in PCs, t \in PCs}

\* Bytecode starts at offset 0; later offsets may leave gaps.
InstructionLists == UNION {[K -> Alphabet] : K \in {K \in SUBSET PCs : 0 \in K}}

\* No handler, or one catch-all handler over the first instruction or over the
\* whole body
ExceptionTables ==
    {<<>>} \cup {<<Handler(0, e, h, "None")>> : e \in {0, MaxPC}, h \in PCs}

\* Static methods with one parameter
GeneratedMethods ==
    {Method(TRUE, 1, Body(MaxStack, MaxLocals, il, et)) :
        il \in InstructionLists, et \in ExceptionTables}

NPE == "java/lang/NullPointerException"

\* Instructions at the given byte offsets
At(pcs, insns) == [pc \in Range(pcs) |-> insns[CHOOSE i \in 1..Len(pcs) : pcs[i] = pc]]

\* static int f(int): iload_0; ireturn
IdentityMethod == Method(TRUE, 1, Body(1, 1, At(<<0, 1>>, <<ILoad(0), IReturn>>), <<>>))

\* static int f(int): iload_0; ifge L1; iconst_m1; goto L2; L1: iconst_1; L2: ireturn
BranchPhiMethod ==
    Method(TRUE, 1,
           Body(1, 1,
                At(<<0, 1, 4, 5, 8, 9>>,
                   <<ILoad(0), IfGe(8), IConstM1, Goto(9), IConst1, IReturn>>),
                <<>>))

\* Object f(): aload_0; getfield; areturn, the getfield under a handler that
\* rethrows
TryCatchMethod ==
    Method(FALSE, 0,
           Body(1, 1,
                At(<<0, 1, 4, 5>>, <<ALoad(0), GetField, AReturn, AThrow>>),
                <<Handler(0, 3, 5, NPE)>>))

\* The same body under three handler entries, two of them for one handler
TwoHandlersMethod ==
    Method(FALSE, 0,
           Body(1, 1,
                At(<<0, 1, 4, 5, 6>>, <<ALoad(0), GetField, AReturn, AThrow, AThrow>>),
                <<Handler(0, 3, 5, NPE), Handler(1, 1, 6, "None"), Handler(1, 3, 5, "None")>>))

\* static void f(int): a loop that redefines its local on every turn
LoopMethod ==
    Method(TRUE, 1,
           Body(1, 1, At(<<0, 1, 2>>, <<IConst0, IStore(0), Goto(0)>>), <<>>))

\* static void f(int, int): a loop that swaps its two locals on every turn
SwapLoopMethod ==
    Method(TRUE, 2,
           Body(2, 2,
                At(<<0, 1, 2, 3, 4>>,
                   <<ILoad(0), ILoad(1), IStore(0), IStore(1), Goto(0)>>),
                <<>>))

\* static void f(int): one subroutine, called once
SubroutineMethod ==
    Method(TRUE, 1,
           Body(1, 2,
                At(<<0, 3, 4, 5>>, <<Jsr(4), Return, AStore(1), Ret(1)>>),
                <<>>))

\* static void f(int): one subroutine, called from two places
TwoCallsMethod ==
    Method(TRUE, 1,
           Body(1, 2,
                At(<<0, 3, 6, 7, 8>>, <<Jsr(7), Jsr(7), Return, AStore(1), Ret(1)>>),
                <<>>))

\* static void f(int): iload_0; lookupswitch {0: A, 1: B, default: D}
SwitchMethod ==
    Method(TRUE, 1,
           Body(1, 1,
                At(<<0, 1, 28, 29, 30>>,
                   <<ILoad(0), LookupSwitch(30, <<<<0, 28>>, <<1, 29>>>>),
                     Return, Return, Return>>),
                <<>>))

\* Object f(): a getfield under three operands, in a range that holds its own
\* handler, an athrow
DeepThrowMethod ==
    Method(FALSE, 0,
           Body(3, 1,
                At(<<0, 1, 2, 3, 6, 7>>,
                   <<ALoad(0), ALoad(0), ALoad(0), GetField, AReturn, AThrow>>),
                <<Handler(0, 7, 7, "None")>>))

\* static void f(int): a subroutine that calls a second one
NestedSubroutineMethod ==
    Method(TRUE, 1,
           Body(1, 3,
                At(<<0, 3, 4, 5, 8, 9, 10>>,
                   <<Jsr(4), Return, AStore(1), Jsr(9), Ret(1), AStore(2), Ret(2)>>),
                <<>>))

\* Object f(): aload_0; ifnull 9; athrow, with no instruction at 9 and no
\* operand for the athrow
TwoDefectsMethod ==
    Method(FALSE, 0,
           Body(1, 1, At(<<0, 1, 4>>, <<ALoad(0), IfNull(9), AThrow>>), <<>>))

\* Object f(): aload_0; ifnull 5; athrow; nop, the athrow without operand and
\* the nop last
LateFallOffMethod ==
    Method(FALSE, 0,
           Body(1, 1, At(<<0, 1, 4, 5>>, <<ALoad(0), IfNull(5), AThrow, Nop>>), <<>>))

\* static void f(int): a loop that tests its local and then redefines it
RetestLoopMethod ==
    Method(TRUE, 1,
           Body(1, 1,
                At(<<0, 1, 4, 5, 6, 7>>,
                   <<ILoad(0), IfGe(5), Return, IConst0, IStore(0), Goto(0)>>),
                <<>>))

\* static void f(int): a subroutine that returns onto a second ret of the
\* same local
StaleRetMethod ==
    Method(TRUE, 1,
           Body(1, 2,
                At(<<0, 3, 4, 5>>, <<Jsr(4), Ret(1), AStore(1), Ret(1)>>),
                <<>>))

ScenarioMethods ==
    {IdentityMethod, BranchPhiMethod, TryCatchMethod, TwoHandlersMethod, LoopMethod,
     SwapLoopMethod, SubroutineMethod, TwoCallsMethod, SwitchMethod, DeepThrowMethod,
     NestedSubroutineMethod, TwoDefectsMethod, LateFallOffMethod, RetestLoopMethod,
     StaleRetMethod}

\* The methods written out one by one
ListedMethods == ScenarioMethods \cup {AbstractMethod, NativeMethod, EmptyBodyMethod}

Methods == GeneratedMethods \cup ListedMethods

Init ==
    /\ method \in Methods
    /\ phase = "new"
    /\ facts = EmptyMap
    /\ dirty = {}
    /\ ir_instructions = EmptyMap
    /\ control_flow_edges = {}
    /\ transfers = 0
    /\ result = NoResult
    /\ call = NoCall
    /\ ret = NoRet

Next == Begin \/ Analyze \/ Generate

Spec == Init /\ [][Next]_vars

\* ------------------------------------------------------ library calls
\* The Argument, ControlFlowGraph and frame functions called on their own.
Identifiers == {This} \cup {Arg(i) : i \in 0..MaxArgIndex}

Arguments == {Id(x) : x \in Identifiers} \cup {Phi(S) : S \in SUBSET Identifiers}

EdgeData == {Unconditional, Conditional}

\* The edges the lists handed to from_edges are made of
Edges == (0..MaxNode) \X (0..MaxNode) \X EdgeData

\* Frames of one local and at most one operand
FrameEntries ==
    {Top, Value(Id(This)), Value(Id(Arg(0))), ReturnAddress(0), ReturnAddress(1)}

Frames ==
    {[locals |-> <<l>>, operand_stack |-> st, possible_ret_addresses |-> r,
      max_stack |-> 1] :
        l \in FrameEntries,
        st \in {<<>>, <<Value(Id(This))>>, <<ReturnAddress(0)>>},
        r \in {{}, {0}}}

\* One call: `|` on three Arguments, from_edges on a list of at most MaxEdges
\* edges, or merge on three frames
InitCalls ==
    /\ \/ \E a \in Arguments, b \in Arguments, c \in Arguments :
             call = [fn |-> "bitor", a |-> a, b |-> b, c |-> c]
       \/ \E es \in SeqsUpTo(Edges, MaxEdges) :
             call = [fn |-> "from_edges", edges |-> es]
       \/ \E a \in Frames, b \in Frames, c \in Frames :
             call = [fn |-> "merge", a |-> a, b |-> b, c |-> c]
    /\ ret = NoRet
    /\ method = AbstractMethod
    /\ phase = "idle"
    /\ facts = EmptyMap
    /\ dirty = {}
    /\ ir_instructions = EmptyMap
    /\ control_flow_edges = {}
    /\ transfers = 0
    /\ result = NoResult

Idle == UNCHANGED <<method, phase, facts, dirty, ir_instructions, control_flow_edges,
                    transfers, result, call>>

\* a | b, b | a, (a | b) | c, a | (b | c) and a | a
BitOrCall ==
    /\ call.fn = "bitor"
    /\ ret = NoRet
    /\ ret' = [fn |-> "bitor",
               ab |-> bitor(call.a, call.b),
               ba |-> bitor(call.b, call.a),
               ab_c |-> bitor(bitor(call.a, call.b), call.c),
               a_bc |-> bitor(call.a, bitor(call.b, call.c)),
               aa |-> bitor(call.a, call.a)]
    /\ Idle

\* from_edges(edges), then nodes(), edges() and exits() of the graph built
FromEdgesCall ==
    /\ call.fn = "from_edges"
    /\ ret = NoRet
    /\ LET g == from_edges(call.edges)
       IN ret' = IF g.panicked
                 THEN [fn |-> "from_edges", panic |-> "Duplicate edge",
                       nodes |-> <<>>, edges |-> <<>>, exits |-> <<>>]
                 ELSE [fn |-> "from_edges", panic |-> "None",
                       nodes |-> nodes(g), edges |-> edges(g), exits |-> exits(g)]
    /\ Idle

\* r, then `then(r.v)` when r is a value
AndThen(r, then(_)) == IF IsOk(r) THEN then(r.v) ELSE r

\* merge(a, b), merge(b, a), merge(merge(a, b), c), merge(a, merge(b, c)) and
\* merge(a, a), each through merge_facts
MergeCall ==
    /\ call.fn = "merge"
    /\ ret = NoRet
    /\ ret' = [fn |-> "merge",
               ab |-> merge_facts(call.a, call.b),
               ba |-> merge_facts(call.b, call.a),
               ab_c |-> AndThen(merge_facts(call.a, call.b),
                                LAMBDA f : merge_facts(f, call.c)),
               a_bc |-> AndThen(merge_facts(call.b, call.c),
                                LAMBDA f : merge_facts(call.a, f)),
               aa |-> merge_facts(call.a, call.a)]
    /\ Idle

NextCalls == BitOrCall \/ FromEdgesCall \/ MergeCall

SpecCalls == InitCalls /\ [][NextCalls]_vars

\* ------------------------------------------------------ exception_edges calls
\* Entries over the range [0, e], for two handlers and three catch types
TableEntries ==
    {Handler(0, e, h, ct) : e \in 0..MaxEnd, h \in {MaxEnd, MaxEnd + 1},
                            ct \in {"None", NPE, Throwable}}

\* The frames of a throwing instruction: an empty stack and a stack of two
ThrowingFrames ==
    {[locals |-> <<Value(Id(This))>>, operand_stack |-> st,
      possible_ret_addresses |-> {}, max_stack |-> 2] :
        st \in {<<>>, <<Value(Id(This)), Value(Id(Arg(0)))>>}}

\* One call of exception_edges: a table of at most MaxEntries entries, the
\* first or the last PC, a frame
InitHandlers ==
    /\ \E t \in SeqsUpTo(TableEntries, MaxEntries), pc \in {0, MaxEnd},
          f \in ThrowingFrames :
          call = [fn |-> "exception_edges", exception_table |-> t, pc |-> pc,
                  frame |-> f]
    /\ ret = NoRet
    /\ method = AbstractMethod
    /\ phase = "idle"
    /\ facts = EmptyMap
    /\ dirty = {}
    /\ ir_instructions = EmptyMap
    /\ control_flow_edges = {}
    /\ transfers = 0
    /\ result = NoResult

\* exception_edges(exception_table, pc, frame)
ExceptionEdgesCall ==
    /\ call.fn = "exception_edges"
    /\ ret = NoRet
    /\ ret' = [fn |-> "exception_edges",
               edges |-> exception_edges(call.exception_table, call.pc, call.frame)]
    /\ Idle

NextHandlers == ExceptionEdgesCall

SpecHandlers == InitHandlers /\ [][NextHandlers]_vars

\* ------------------------------------------------------ Display
\* What a formatter receives: literal pieces of a format string, integers
\* (u16, i32) and ProgramCounters, each through its own Display.
Lit(s) == [tok |-> "lit", s |-> s, n |-> 0]
Num(n) == [tok |-> "int", s |-> "", n |-> n]
PcText(pc) == [tok |-> "pc", s |-> "", n |-> pc]

\* Itertools::join
RECURSIVE join(_, _)
join(texts, sep) ==
    IF texts = <<>> THEN <<>>
    ELSE IF Len(texts) = 1 THEN texts[1]
    ELSE texts[1] \o sep \o join(Tail(texts), sep)

\* impl Display for Identifier
fmt_identifier(id) ==
    CASE id.k = "This" -> <<Lit("%this")>>
      [] id.k = "Arg" -> <<Lit("%arg"), Num(id.i)>>
      [] id.k = "Def" -> <<Lit("%"), Num(id.i)>>
      [] id.k = "CaughtException" -> <<Lit("%caught_exception")>>

\* derive(Ord) for Identifier: the variants in declared order, then the index
identifier_rank(id) ==
    CASE id.k = "This" -> 0
      [] id.k = "Arg" -> 1 + id.i
      [] id.k = "Def" -> 65537 + id.i
      [] id.k = "CaughtException" -> 131073

\* BTreeSet<Identifier>::iter
RECURSIVE in_order(_)
in_order(ids) ==
    IF ids = {} THEN <<>>
    ELSE LET least == CHOOSE x \in ids :
                          \A y \in ids : identifier_rank(x) <= identifier_rank(y)
         IN <<least>> \o in_order(ids \ {least})

\* impl Display for Argument
fmt_argument(a) ==
    IF a.t = "Id" THEN fmt_identifier(CHOOSE x \in a.ids : TRUE)
    ELSE LET ids == in_order(a.ids)
         IN <<Lit("Phi(")>>
            \o join([i \in 1..Len(ids) |-> fmt_identifier(ids[i])], <<Lit(", ")>>)
            \o <<Lit(")")>>

\* The branches of a Switch, each as "{} => {}", joined by ", "
fmt_branches(branches) ==
    join([i \in 1..Len(branches) |->
            <<Num(branches[i][1]), Lit(" => "), PcText(branches[i][2])>>],
         <<Lit(", ")>>)

\* impl Display for MokaInstruction: the arms Nop, Jump without condition,
\* Switch and Return
fmt(insn) ==
    CASE insn.ir = "Nop" -> <<Lit("nop")>>
      [] insn.ir = "Jump" /\ ~insn.conditional -> <<Lit("goto "), PcText(insn.target)>>
      [] insn.ir = "Switch" ->
            <<Lit("switch ")>> \o fmt_argument(insn.args[1]) \o <<Lit(" { ")>>
            \o <<PcText(insn.target)>> \o <<Lit(", else => ")>>
            \o fmt_branches(insn.branches) \o <<Lit(" }")>>
      [] insn.ir = "Return" /\ insn.args # <<>> ->
            <<Lit("return ")>> \o fmt_argument(insn.args[1])
      [] insn.ir = "Return" /\ insn.args = <<>> -> <<Lit("return")>>

\* The match values and returned values of the instructions displayed
DisplayedArguments ==
    {Id(This), Id(Arg(1)), Id(Def(MaxPC)), Id(CaughtException),
     Phi({CaughtException, Def(0), Arg(0), This})}

SwitchKeys == -1..MaxKey

\* One instruction handed to Display
InitDisplay ==
    /\ \/ \E a \in DisplayedArguments, d \in PCs,
             bs \in SeqsUpTo(SwitchKeys \X PCs, MaxBranches) :
             call = [fn |-> "fmt", insn |-> IRSwitch(a, d, bs)]
       \/ \E a \in DisplayedArguments : call = [fn |-> "fmt", insn |-> IRReturn(<<a>>)]
       \/ \E t \in PCs : call = [fn |-> "fmt", insn |-> IRJump(<<>>, t)]
       \/ call = [fn |-> "fmt", insn |-> IRReturn(<<>>)]
       \/ call = [fn |-> "fmt", insn |-> IRNop]
    /\ ret = NoRet
    /\ method = AbstractMethod
    /\ phase = "idle"
    /\ facts = EmptyMap
    /\ dirty = {}
    /\ ir_instructions = EmptyMap
    /\ control_flow_edges = {}
    /\ transfers = 0
    /\ result = NoResult

\* format!("{}", insn)
FmtCall ==
    /\ call.fn = "fmt"
    /\ ret = NoRet
    /\ ret' = [fn |-> "fmt", text |-> fmt(call.insn)]
    /\ Idle

NextDisplay == FmtCall

SpecDisplay == InitDisplay /\ [][NextDisplay]_vars

\* ------------------------------------------------------ InstructionList calls
\* One list of at most MaxListPC + 1 instructions and one PC, a key or not
InitList ==
    /\ \E K \in SUBSET (0..MaxListPC), pc \in 0..MaxListPC :
          \E l \in [K -> {Nop, IConst0, IConst1}] :
              call = [fn |-> "list", instructions |-> l, pc |-> pc]
    /\ ret = NoRet
    /\ method = AbstractMethod
    /\ phase = "idle"
    /\ facts = EmptyMap
    /\ dirty = {}
    /\ ir_instructions = EmptyMap
    /\ control_flow_edges = {}
    /\ transfers = 0
    /\ result = NoResult

\* entry_point(), next_pc_of(pc), get(pc) and MethodBody::instruction_at(pc)
ListCall ==
    /\ call.fn = "list"
    /\ ret = NoRet
    /\ ret' = [fn |-> "list",
               entry_point |-> list_first_key_value(call.instructions),
               next_pc_of |-> list_next_pc_of(call.instructions, call.pc),
               get |-> list_get(call.instructions, call.pc),
               instruction_at |->
                   instruction_at(Body(0, 0, call.instructions, <<>>), call.pc)]
    /\ Idle

NextList == ListCall

SpecList == InitList /\ [][NextList]_vars

\* ------------------------------------------------------ MethodDescriptor
\* A descriptor is the sequence of its characters.  FieldType: the element
\* type (a primitive or a class, by its characters) under `dims` array levels;
\* ReturnType::Void shares the shape.
BaseType(c) == [kind |-> "Base", name |-> <<c>>, dims |-> 0]
ObjectType(binary_name) == [kind |-> "Object", name |-> binary_name, dims |-> 0]
Void == [kind |-> "Void", name |-> <<>>, dims |-> 0]

\* FieldType::make_array_type
make_array_type(t) == [t EXCEPT !.dims = @ + 1]

InvalidDescriptor == Err("InvalidDescriptor")

\* PrimitiveType::try_from(char)
primitive_type_try_from(c) ==
    IF c \in {"B", "C", "D", "F", "I", "J", "S", "Z"} THEN Ok(c) ELSE InvalidDescriptor

\* Itertools::take_while_ref(|c| *c != stop): <<the characters taken, the rest>>
RECURSIVE take_while_ref(_, _)
take_while_ref(chars, stop) ==
    IF chars = <<>> \/ Head(chars) = stop THEN <<<<>>, chars>>
    ELSE LET r == take_while_ref(Tail(chars), stop)
         IN <<<<Head(chars)>> \o r[1], r[2]>>

\* MethodDescriptor::parse_single_param: v is <<FieldType, the characters left>>
RECURSIVE parse_single_param(_, _)
parse_single_param(prefix, remaining) ==
    IF IsOk(primitive_type_try_from(prefix)) THEN Ok(<<BaseType(prefix), remaining>>)
    ELSE CASE prefix = "L" ->
                LET taken == take_while_ref(remaining, ";")
                IN IF taken[2] # <<>> /\ Head(taken[2]) = ";"
                   THEN Ok(<<ObjectType(taken[1]), Tail(taken[2])>>)
                   ELSE InvalidDescriptor
           [] prefix = "[" ->
                IF remaining = <<>> THEN InvalidDescriptor
                ELSE LET r == parse_single_param(Head(remaining), Tail(remaining))
                     IN IF IsOk(r) THEN Ok(<<make_array_type(r.v[1]), r.v[2]>>) ELSE r
           [] OTHER -> InvalidDescriptor

\* impl FromStr for FieldType: one field type and nothing after it
field_type_from_str(descriptor) ==
    IF descriptor = <<>> THEN InvalidDescriptor
    ELSE LET r == parse_single_param(Head(descriptor), Tail(descriptor))
         IN IF IsOk(r) /\ r.v[2] = <<>> THEN Ok(r.v[1]) ELSE InvalidDescriptor

\* impl FromStr for ReturnType looking at the first character only
return_type_from_str_prefix(descriptor) ==
    IF descriptor # <<>> /\ Head(descriptor) = "V" THEN Ok(Void)
    ELSE field_type_from_str(descriptor)

\* impl FromStr for ReturnType
return_type_from_str(descriptor) ==
    IF descriptor = <<"V">> THEN Ok(Void) ELSE field_type_from_str(descriptor)

\* The loop of MethodDescriptor::from_str
RECURSIVE parse_descriptor(_, _)
parse_descriptor(chars, parameters_types) ==
    IF chars = <<>> THEN InvalidDescriptor
    ELSE CASE Head(chars) = "(" -> parse_descriptor(Tail(chars), parameters_types)
           [] Head(chars) = ")" ->
                LET r == return_type_from_str(Tail(chars))
                IN IF IsOk(r)
                   THEN Ok([parameters_types |-> parameters_types, return_type |-> r.v])
                   ELSE r
           [] OTHER ->
                LET param == parse_single_param(Head(chars), Tail(chars))
                IN IF IsOk(param)
                   THEN parse_descriptor(param.v[2], Append(parameters_types, param.v[1]))
                   ELSE param

\* impl FromStr for MethodDescriptor
method_descriptor_from_str(descriptor) == parse_descriptor(descriptor, <<>>)

\* FieldType::descriptor_string and ReturnType::descriptor_string
descriptor_string(t) ==
    [i \in 1..t.dims |-> "["]
    \o (CASE t.kind = "Base" -> t.name
          [] t.kind = "Object" -> <<"L">> \o t.name \o <<";">>
          [] t.kind = "Void" -> <<"V">>)

\* The descriptor strings of a parameter list, one after the other
params_string(parameters_types) ==
    concat([i \in 1..Len(parameters_types) |-> descriptor_string(parameters_types[i])])

\* impl ToString for MethodDescriptor
to_string(parameters_types, return_type) ==
    <<"(">> \o params_string(parameters_types) \o <<")">>
    \o descriptor_string(return_type)

\* The types the descriptors are written with
FieldTypes ==
    {BaseType("I"), BaseType("J"), ObjectType(<<"a", "/", "b">>),
     make_array_type(BaseType("J")),
     make_array_type(make_array_type(ObjectType(<<"a">>)))}

\* What is written after a complete descriptor
ExtraCharacters == {<<"J">>, <<"V">>, <<";">>, <<"[">>, <<")", "V">>, <<"L", "a", ";">>}

\* One descriptor: well formed, or of one of the malformed shapes
DescriptorCall(shape, text, parameters_types, return_type) ==
    call = [fn |-> "from_str", shape |-> shape, text |-> text,
            parameters_types |-> parameters_types, return_type |-> return_type]

InitDescriptors ==
    /\ \E ps \in SeqsUpTo(FieldTypes, MaxParams), r \in FieldTypes \cup {Void} :
          \/ DescriptorCall("well_formed", to_string(ps, r), ps, r)
          \/ DescriptorCall("empty", <<>>, <<>>, Void)
          \/ DescriptorCall("no_return_type", <<"(">> \o params_string(ps) \o <<")">>,
                            ps, Void)
          \/ \E x \in ExtraCharacters :
                DescriptorCall("extra_characters", to_string(ps, r) \o x, ps, r)
          \/ \E i \in 1..Len(ps) :
                LET before == <<"(">> \o params_string(SubSeq(ps, 1, i - 1))
                    unclosed == [k \in 1..(Len(descriptor_string(ps[i])) - 1) |->
                                    descriptor_string(ps[i])[k]]
                    after == params_string(SubSeq(ps, i + 1, Len(ps))) \o <<")">>
                             \o descriptor_string(r)
                IN /\ ps[i].kind = "Object"
                   /\ ";" \notin Range(after)
                   /\ DescriptorCall("unclosed_object", before \o unclosed \o after,
                                     ps, r)
          \/ \E i \in 0..Len(ps), dims \in 0..1 :
                DescriptorCall("void_parameter",
                               <<"(">> \o params_string(SubSeq(ps, 1, i))
                               \o [k \in 1..dims |-> "["] \o <<"V">>
                               \o params_string(SubSeq(ps, i + 1, Len(ps)))
                               \o <<")">> \o descriptor_string(r),
                               ps, r)
    /\ ret = NoRet
    /\ method = AbstractMethod
    /\ phase = "idle"
    /\ facts = EmptyMap
    /\ dirty = {}
    /\ ir_instructions = EmptyMap
    /\ control_flow_edges = {}
    /\ transfers = 0
    /\ result = NoResult

\* MethodDescriptor::from_str(text)
FromStrCall ==
    /\ call.fn = "from_str"
    /\ ret = NoRet
    /\ ret' = [fn |-> "from_str", parsed |-> method_descriptor_from_str(call.text)]
    /\ Idle

NextDescriptors == FromStrCall

SpecDescriptors == InitDescriptors /\ [][NextDescriptors]_vars

\* ------------------------------------------------------ properties: Argument
\* C6: Argument merge (`|`) is commutative, associative and idempotent over Id
\* values and Phi values of any set size: a|b = b|a, (a|b)|c = a|(b|c), a|a = a.
BitOrLaws ==
    ret.fn = "bitor" =>
        /\ ret.ab = ret.ba
        /\ ret.ab_c = ret.a_bc
        /\ ret.aa = call.a

\* An Id that is already in the Phi on the other side, then a third operand
BitOrLawsWitness ==
    /\ ret.fn = "bitor"
    /\ call.a = Phi({This, Arg(0)})
    /\ call.b = Id(Arg(0))
    /\ call.c = Id(Arg(1))
    /\ ret.ab_c = Phi({This, Arg(0), Arg(1)})

\* C7: a|b holds exactly the identifiers of a and of b, and is never a Phi of
\* exactly one identifier (a single identifier is always in the Id form).
BitOrCanonical ==
    ret.fn = "bitor" =>
        /\ identifiers(ret.ab) = identifiers(call.a) \cup identifiers(call.b)
        /\ ~(ret.ab.t = "Phi" /\ Cardinality(ret.ab.ids) = 1)

\* ------------------------------------------------------ properties: frames
SameOutcome(r1, r2) == r1.err = r2.err /\ (IsOk(r1) => r1.v = r2.v)

\* C8, as claimed: frame merge with an error as a possible outcome is
\* commutative, associative and idempotent: both sides give the same frame or
\* both fail.
MergeLawsWithErrors ==
    ret.fn = "merge" =>
        /\ SameOutcome(ret.ab, ret.ba)
        /\ SameOutcome(ret.ab_c, ret.a_bc)
        /\ IsOk(ret.aa) /\ ret.aa.v = call.a

\* C8, amended: frame merge is commutative (same frame or both fail) and
\* idempotent, and it is associative whenever both groupings succeed; one
\* grouping may fail where the other succeeds.
MergeLaws ==
    ret.fn = "merge" =>
        /\ SameOutcome(ret.ab, ret.ba)
        /\ (IsOk(ret.ab_c) /\ IsOk(ret.a_bc) => ret.ab_c.v = ret.a_bc.v)
        /\ IsOk(ret.aa) /\ ret.aa.v = call.a

\* Three frames whose merge builds a Phi and unites the return addresses, and
\* a pair that fails in both orders
MergeLawsWitness ==
    /\ ret.fn = "merge"
    /\ call.a.locals = <<Value(Id(This))>>
    /\ call.b.locals = <<Value(Id(Arg(0)))>>
    /\ call.a.possible_ret_addresses # call.b.possible_ret_addresses
    /\ IsOk(ret.ab_c) /\ IsOk(ret.a_bc)
    /\ ret.ab.v.locals = <<Value(Phi({This, Arg(0)}))>>
    /\ call.c.locals = <<Top>>

\* ------------------------------------------------------ properties: the CFG
HasDuplicate(es) ==
    \E i, j \in 1..Len(es) : i < j /\ es[i][1] = es[j][1] /\ es[i][2] = es[j][2]

\* C9: from_edges panics with `Duplicate edge` exactly when two input edges
\* have the same (src, dst), whatever their data and their places in the input.
FromEdgesPanics ==
    ret.fn = "from_edges" =>
        (ret.panic = "Duplicate edge" <=> HasDuplicate(call.edges))

\* The same pair first and last, with different data and another edge between
FromEdgesPanicsWitness ==
    /\ ret.fn = "from_edges"
    /\ Len(call.edges) = 3
    /\ call.edges[1][1] = call.edges[3][1] /\ call.edges[1][2] = call.edges[3][2]
    /\ call.edges[1][3] # call.edges[3][3]
    /\ ~HasDuplicate(SubSeq(call.edges, 1, 2))
    /\ ret.panic = "Duplicate edge"

NoRepeats(s) == \A i, j \in 1..Len(s) : s[i] = s[j] => i = j

\* C10: for a duplicate-free edge list, nodes() yields exactly the PCs that are
\* a source or a destination of an input edge, each once, and edges() yields
\* exactly the input edges, each once.
NodesAndEdges ==
    (ret.fn = "from_edges" /\ ~HasDuplicate(call.edges)) =>
        /\ Range(ret.nodes) = {e[1] : e \in Range(call.edges)}
                              \cup {e[2] : e \in Range(call.edges)}
        /\ NoRepeats(ret.nodes)
        /\ Range(ret.edges) = Range(call.edges)
        /\ NoRepeats(ret.edges)

\* A node that is only ever a destination, and a self loop
NodesAndEdgesWitness ==
    /\ ret.fn = "from_edges"
    /\ ret.panic = "None"
    /\ Len(call.edges) = 2
    /\ call.edges[1][1] = 0 /\ call.edges[1][2] = 0
    /\ \A e \in Range(call.edges) : e[1] = 0
    /\ ret.nodes = <<0, 1>>
    /\ Len(ret.edges) = 2

\* C11: exits() yields exactly the nodes without an outgoing edge, each once:
\* the PCs that occur as a destination and never as a source of an input edge.
ExitsHaveNoEdges ==
    (ret.fn = "from_edges" /\ ~HasDuplicate(call.edges)) =>
        /\ Range(ret.exits) = {e[2] : e \in Range(call.edges)}
                              \ {e[1] : e \in Range(call.edges)}
        /\ NoRepeats(ret.exits)
        /\ \A n \in Range(ret.nodes) :
              n \in Range(ret.exits) <=> ~\E e \in Range(ret.edges) : e[1] = n

\* A graph whose only exit is never a source, beside a node with a self loop
\* and an edge to the exit
ExitsHaveNoEdgesWitness ==
    /\ ret.fn = "from_edges"
    /\ ret.panic = "None"
    /\ Len(call.edges) = 2
    /\ call.edges[1][1] = 0 /\ call.edges[1][2] = 1
    /\ call.edges[2][1] = 0 /\ call.edges[2][2] = 0
    /\ ret.exits = <<1>>

\* ------------------------------------------------------ properties: the lift
Lifted_ok == phase = "done" /\ result.kind = "Ok"

\* The ControlFlowGraph of the MokaIRMethod returned
Cfg == [panicked |-> FALSE, inner |-> result.control_flow_graph]

\* The PCs reached from `from` along the edges of g
RECURSIVE reach(_, _)
reach(g, seen) ==
    LET next == seen \cup UNION {DOMAIN g.inner[n] : n \in seen \cap DOMAIN g.inner}
    IN IF next = seen THEN seen ELSE reach(g, next)

Reachable(g, from) == reach(g, {from})

ReturnOnly ==
    /\ method.has_body
    /\ DOMAIN method.body.instructions = {0}
    /\ method.body.instructions[0] = Return

\* C1: lifting the method whose body is the single instruction `return` at PC
\* 0 succeeds with an IR map of one entry, Return(None) at PC 0, and a CFG of
\* exactly one node (PC 0), no edge, PC 0 being the entry and the only exit.
EmptyMethodLift ==
    (phase = "done" /\ ReturnOnly) =>
        /\ result.kind = "Ok"
        /\ DOMAIN result.instructions = {0}
        /\ result.instructions[0] = IRReturn(<<>>)
        /\ nodes(Cfg) = <<0>>
        /\ edges(Cfg) = <<>>
        /\ entry_point(Cfg) = 0
        /\ exits(Cfg) = <<0>>

\* C2: after a successful lift the keys of the IR map are exactly the PCs
\* reachable from the CFG's entry point along the CFG's edges.
KeysAreReachable ==
    Lifted_ok => DOMAIN result.instructions = Reachable(Cfg, entry_point(Cfg))

\* A lift that left dead code out and built edges
KeysAreReachableWitness ==
    /\ Lifted_ok
    /\ Len(edges(Cfg)) >= 1
    /\ \E pc \in DOMAIN method.body.instructions : pc \notin DOMAIN result.instructions

\* C3: after a successful lift every CFG edge has its source and its
\* destination among the keys of the IR map, and no (src, dst) pair has two
\* edges.
EdgesWithinIR ==
    Lifted_ok =>
        /\ \A e \in Range(edges(Cfg)) :
              e[1] \in DOMAIN result.instructions /\ e[2] \in DOMAIN result.instructions
        /\ \A i, j \in 1..Len(edges(Cfg)) :
              (edges(Cfg)[i][1] = edges(Cfg)[j][1] /\ edges(Cfg)[i][2] = edges(Cfg)[j][2])
                  => i = j

\* A lift with an exception edge beside the fall-through edge of one source
EdgesWithinIRWitness ==
    /\ Lifted_ok
    /\ \E e1, e2 \in Range(edges(Cfg)) :
          e1[1] = e2[1] /\ e1[3].ct = "Exception" /\ e2[3].ct = "Unconditional"

\* The height of the facts of a method: every slot can take each identifier
\* once and then Top, and the return addresses are PCs.
FactHeight(m) ==
    LET n == Cardinality(DOMAIN m.body.instructions)
    IN (m.body.max_locals + m.body.max_stack) * (n + m.params + 3) + n

\* C4: the analysis terminates: every dirty location has a fact to analyse,
\* and at most instructions * (fact height + 1) transfer calls are made before
\* the dirty set is empty or an error is returned.
AnalysisTerminates ==
    phase = "analyzing" =>
        /\ dirty \subseteq DOMAIN facts
        /\ transfers <= Cardinality(DOMAIN method.body.instructions)
                            * (FactHeight(method) + 1)

\* A loop whose head was analysed again after its fact changed
AnalysisTerminatesWitness ==
    /\ Lifted_ok
    /\ method = SwapLoopMethod
    /\ transfers > Cardinality(DOMAIN method.body.instructions)

\* The frames that reach s: the entry frame when s is the entry, then the
\* frames handed to s by the transfer of every analysed location, in PC order.
Incoming(s) ==
    LET first_pc == list_entry_point(method.body.instructions)[1]
        entry == IF s = first_pc
                 THEN <<new_frame(method.is_static, method.params,
                                  method.body.max_locals, method.body.max_stack).v>>
                 ELSE <<>>
        ps == ascending(DOMAIN facts)
        from(p) ==
            LET out == analyze_location(method.body, p, facts[p]).v.affected_locations
                mine == SelectSeq(out, LAMBDA sf : sf[1] = s)
            IN [i \in 1..Len(mine) |-> mine[i][2]]
    IN entry \o concat([i \in 1..Len(ps) |-> from(ps[i])])

RECURSIVE merge_all(_, _)
merge_all(acc, frames) ==
    IF frames = <<>> \/ ~IsOk(acc) THEN acc
    ELSE merge_all(merge(acc.v, Head(frames)), Tail(frames))

\* C5: after a successful analysis the frame stored at every PC is the merge
\* of all the frames its predecessors' transfers produce from their final
\* frames (and of the entry frame at the entry PC).
FactsAreMerges ==
    Lifted_ok =>
        \A s \in DOMAIN facts :
            LET in == Incoming(s)
                m == merge_all(Ok(Head(in)), Tail(in))
            IN in # <<>> /\ IsOk(m) /\ m.v = facts[s]

\* A PC with two predecessors whose frames differ, holding a Phi
FactsAreMergesWitness ==
    /\ Lifted_ok
    /\ \E s \in DOMAIN facts :
          /\ Cardinality({e \in control_flow_edges : e[2] = s}) >= 2
          /\ \E i \in 1..Len(facts[s].operand_stack) :
                /\ facts[s].operand_stack[i].e = "Value"
                /\ facts[s].operand_stack[i].arg.t = "Phi"

\* ------------------------------------------------------ properties: handlers
\* The entries of the table whose range holds pc
Covering(t, pc) == SelectSeq(t, LAMBDA it : covers(it, pc))

\* The catch types of the covering entries of handler h, absent as Throwable
CaughtBy(t, pc, h) ==
    {IF it.catch_type = "None" THEN Throwable ELSE it.catch_type :
        it \in {x \in Range(Covering(t, pc)) : x.handler_pc = h}}

\* C12: exception_edges yields exactly one successor per distinct handler_pc
\* among the entries covering pc; its edge is labelled Exception(classes) with
\* the catch types of that handler's covering entries (absent as
\* java/lang/Throwable), no class twice, whatever the order of the table.
OneEdgePerHandler ==
    ret.fn = "exception_edges" =>
        LET t == call.exception_table
            hs == {it.handler_pc : it \in Range(Covering(t, call.pc))}
        IN /\ Len(ret.edges) = Cardinality(hs)
           /\ {ef[1][2] : ef \in Range(ret.edges)} = hs
           /\ \A ef \in Range(ret.edges) :
                 /\ ef[1][1] = call.pc
                 /\ ef[1][3].ct = "Exception"
                 /\ Range(ef[1][3].classes) = CaughtBy(t, call.pc, ef[1][2])
                 /\ NoRepeats(ef[1][3].classes)

\* The <<edge, frame>> pairs analyze_location builds at p from the fact stored
\* at p (an error when the instruction or its fall-through fails)
Transfer(p) ==
    LET r == run_instruction(method.body, method.body.instructions[p], p,
                             same_frame(facts[p]))
    IN IF IsOk(r) THEN edges_and_frames_of(method.body, p, r.v[1], r.v[2]) ELSE r

\* The locations that hold a fact and an instruction
Analysable == DOMAIN facts \cap DOMAIN method.body.instructions

\* C13: every frame propagated to an exception handler has the operand stack
\* [Value(Id(CaughtException))], whatever the stack of the throwing
\* instruction, and the locals of that instruction's frame, also when the
\* handler lies in its own range.
HandlerFrames ==
    \A p \in Analysable :
        IsOk(Transfer(p)) =>
            \A ef \in Range(Transfer(p).v) :
                ef[1][3].ct = "Exception" =>
                    /\ ef[2].operand_stack = <<Value(Id(CaughtException))>>
                    /\ ef[2].locals = facts[p].locals

\* A getfield under three operands whose handler lies in the handler's own
\* range, and the handler's own athrow, both analysed
HandlerFramesWitness ==
    /\ Lifted_ok
    /\ \E p \in Analysable :
          /\ Len(facts[p].operand_stack) = 3
          /\ \E ef \in Range(Transfer(p).v) :
                /\ ef[1][3].ct = "Exception"
                /\ \E it \in Range(method.body.exception_table) :
                      /\ it.handler_pc = ef[1][2]
                      /\ covers(it, it.handler_pc)
                      /\ <<it.handler_pc, it.handler_pc, Exception(<<Throwable>>)>>
                            \in control_flow_edges

\* ------------------------------------------------------ properties: successors
\* The instruction lifted at p from the fact stored at p, and the frame after it
Run(p) ==
    run_instruction(method.body, method.body.instructions[p], p, same_frame(facts[p]))

\* The edges that leave p in the graph returned
CfgEdgesFrom(p) ==
    IF p \in DOMAIN Cfg.inner THEN Range(edges_from(Cfg, p)) ELSE {}

\* C14: a conditional Jump at pc has the successors (target, next PC), both
\* through a Conditional edge and with the same frame; an unconditional Jump
\* has one successor, its target, through an Unconditional edge.
JumpEdges ==
    \A p \in Analysable :
        (IsOk(Run(p)) /\ Run(p).v[1].ir = "Jump") =>
            LET j == Run(p).v[1]
                f == Run(p).v[2]
                n == list_next_pc_of(method.body.instructions, p)
            IN IF j.conditional
               THEN n # <<>> =>
                      /\ Transfer(p) = Ok(<<<<<<p, j.target, Conditional>>, f>>,
                                            <<<<p, n[1], Conditional>>, f>>>>)
                      /\ Lifted_ok => CfgEdgesFrom(p) = {<<p, j.target, Conditional>>,
                                                         <<p, n[1], Conditional>>}
               ELSE /\ Transfer(p) = Ok(<<<<<<p, j.target, Unconditional>>, f>>>>)
                    /\ Lifted_ok => CfgEdgesFrom(p) = {<<p, j.target, Unconditional>>}

\* The ifge and the goto of the branch method, in the graph returned
JumpEdgesWitness ==
    /\ Lifted_ok
    /\ method = BranchPhiMethod
    /\ CfgEdgesFrom(1) = {<<1, 8, Conditional>>, <<1, 4, Conditional>>}
    /\ CfgEdgesFrom(5) = {<<5, 9, Unconditional>>}

\* C15: a Switch at pc has one successor per branch and one for the default,
\* each through a Conditional edge and with the same frame, and no other; its
\* edges in the graph are one per distinct target.
SwitchEdges ==
    \A p \in Analysable :
        (IsOk(Run(p)) /\ Run(p).v[1].ir = "Switch") =>
            LET sw == Run(p).v[1]
                f == Run(p).v[2]
                ts == {sw.branches[i][2] : i \in 1..Len(sw.branches)} \cup {sw.target}
                out == Transfer(p)
            IN /\ IsOk(out)
               /\ Len(out.v) = Len(sw.branches) + 1
               /\ {ef[1] : ef \in Range(out.v)} = {<<p, t, Conditional>> : t \in ts}
               /\ \A ef \in Range(out.v) : ef[2] = f
               /\ Lifted_ok =>
                     /\ CfgEdgesFrom(p) = {<<p, t, Conditional>> : t \in ts}
                     /\ Len(edges_from(Cfg, p)) = Cardinality(ts)

\* The switch of two branches and a default, all to different PCs: three edges
SwitchEdgesWitness ==
    /\ Lifted_ok
    /\ method = SwitchMethod
    /\ Len(edges_from(Cfg, 1)) = 3
    /\ CfgEdgesFrom(1) = {<<1, 28, Conditional>>, <<1, 29, Conditional>>,
                          <<1, 30, Conditional>>}

\* C17: a subroutine call at pc has one successor, the target, through an
\* Unconditional edge, with the return address among the frame's
\* possible_ret_addresses; a ret at pc has one successor and one
\* SubroutineReturn edge per PC of its frame's possible_ret_addresses, and no
\* other.
SubroutineEdges ==
    \A p \in Analysable :
        IsOk(Run(p)) =>
            LET ir == Run(p).v[1]
                f == Run(p).v[2]
                out == Transfer(p)
            IN /\ (ir.ir = "Definition" /\ ir.expr = "Subroutine") =>
                     /\ IsOk(out)
                     /\ Len(out.v) = 1
                     /\ out.v[1][1] = <<p, ir.target, Unconditional>>
                     /\ out.v[1][2].possible_ret_addresses =
                            facts[p].possible_ret_addresses \cup {ir.return_address}
                     /\ Lifted_ok => CfgEdgesFrom(p) = {<<p, ir.target, Unconditional>>}
               /\ ir.ir = "SubroutineRet" =>
                     /\ IsOk(out)
                     /\ Len(out.v) = Cardinality(facts[p].possible_ret_addresses)
                     /\ {ef[1] : ef \in Range(out.v)} =
                            {<<p, r, SubroutineReturn>> :
                                r \in facts[p].possible_ret_addresses}
                     /\ Lifted_ok =>
                           CfgEdgesFrom(p) = {<<p, r, SubroutineReturn>> :
                                                 r \in facts[p].possible_ret_addresses}

\* The inner ret of the nested subroutines returns to both recorded addresses
SubroutineEdgesWitness ==
    /\ Lifted_ok
    /\ method = NestedSubroutineMethod
    /\ facts[10].possible_ret_addresses = {3, 8}
    /\ CfgEdgesFrom(10) = {<<10, 3, SubroutineReturn>>, <<10, 8, SubroutineReturn>>}
    /\ CfgEdgesFrom(5) = {<<5, 9, Unconditional>>}

\* C16: a Return has no successor and no edge; an athrow has only
\* exception-handler successors, none when no entry covers it; every reached
\* Return and every reached uncovered athrow is an exit of the graph returned.
TerminatorsAreExits ==
    \A p \in Analysable :
        IsOk(Run(p)) =>
            LET ir == Run(p).v[1]
                out == Transfer(p)
                covered == \E it \in Range(method.body.exception_table) : covers(it, p)
            IN /\ ir.ir = "Return" =>
                     /\ out = Ok(<<>>)
                     /\ Lifted_ok => (CfgEdgesFrom(p) = {} /\ p \in Range(exits(Cfg)))
               /\ (ir.ir = "Definition" /\ ir.expr = "Throw") =>
                     /\ IsOk(out)
                     /\ \A ef \in Range(out.v) :
                           /\ ef[1][3].ct = "Exception"
                           /\ \E it \in Range(method.body.exception_table) :
                                 covers(it, p) /\ it.handler_pc = ef[1][2]
                     /\ ~covered =>
                           /\ out = Ok(<<>>)
                           /\ Lifted_ok =>
                                 (CfgEdgesFrom(p) = {} /\ p \in Range(exits(Cfg)))

\* ------------------------------------------------------ properties: errors
\* C19: lifting a method without a body returns NoMethodBody before any
\* analysis step runs, and never panics.
NoBodyError ==
    (~method.has_body /\ phase # "idle") =>
        /\ phase \in {"new", "done"}
        /\ transfers = 0
        /\ facts = EmptyMap /\ dirty = {}
        /\ ir_instructions = EmptyMap /\ control_flow_edges = {}
        /\ phase = "done" => result = Failed("NoMethodBody")

\* The native method, refused
NoBodyErrorWitness ==
    /\ method = NativeMethod
    /\ phase = "done"
    /\ result.kind = "Err" /\ result.err = "NoMethodBody"

\* The lifted instructions after which control goes on to the next PC
FallsThrough(ir) ==
    \/ ir.ir = "Nop"
    \/ ir.ir = "Definition" /\ ir.expr \notin {"Throw", "Subroutine"}
    \/ ir.ir = "Jump" /\ ir.conditional

\* The PCs a lifted instruction names as targets
Targets(ir) ==
    CASE ir.ir = "Jump" -> {ir.target}
      [] ir.ir = "Switch" ->
            {ir.branches[i][2] : i \in 1..Len(ir.branches)} \cup {ir.target}
      [] ir.ir = "Definition" /\ ir.expr = "Subroutine" -> {ir.target}
      [] OTHER -> {}

EmptyList == method.has_body /\ DOMAIN method.body.instructions = {}

\* p was reached, lifts to an instruction that falls through, and is the last
\* instruction of the list
FallsOffEnd(p) ==
    /\ p \in Analysable
    /\ IsOk(Run(p))
    /\ FallsThrough(Run(p).v[1])
    /\ list_next_pc_of(method.body.instructions, p) = <<>>

\* p was reached and lifts to an instruction with a target outside the list
JumpsOut(p) ==
    /\ p \in Analysable
    /\ IsOk(Run(p))
    /\ ~(Targets(Run(p).v[1]) \subseteq DOMAIN method.body.instructions)

\* C18 as stated: with an empty instruction list, a reached fall-through
\* instruction at the end of the list, or a reached jump, switch or subroutine
\* target outside the list, the lift returns MalformedControlFlow.
MalformedControlFlowCases ==
    (/\ phase = "done"
     /\ \/ EmptyList
        \/ \E p \in DOMAIN facts : FallsOffEnd(p) \/ JumpsOut(p)) =>
        result = Failed("MalformedControlFlow")

\* The step that analyses the location `loc` ends the lift with
\* MalformedControlFlow
EndsMalformed ==
    (/\ phase = "analyzing"
     /\ dirty # {}
     /\ \/ Min(dirty) \notin DOMAIN method.body.instructions
        \/ FallsOffEnd(Min(dirty))) =>
        (phase' = "done" /\ result' = Failed("MalformedControlFlow"))

\* C18, amended: an empty instruction list returns MalformedControlFlow; the
\* analysis returns MalformedControlFlow at the step that comes to a
\* fall-through instruction at the end of the list or to a location without
\* instruction; and a lift with such a reached instruction or target never
\* succeeds, though another error may end it first.
MalformedWhenReached ==
    /\ [](phase = "done" =>
            /\ EmptyList => result = Failed("MalformedControlFlow")
            /\ (\E p \in DOMAIN facts : FallsOffEnd(p) \/ JumpsOut(p)) =>
                  /\ result.kind = "Err"
                  /\ result.err \in {"MalformedControlFlow", "ExecutionError",
                                     "MergeError"})
    /\ [][EndsMalformed]_vars

\* A jump out of the list whose target was analysed, and refused
MalformedWhenReachedWitness ==
    /\ phase = "done"
    /\ result = Failed("MalformedControlFlow")
    /\ transfers >= 2
    /\ \E p \in DOMAIN facts : JumpsOut(p) /\ Run(p).v[1].ir = "Jump"
    /\ \E l \in DOMAIN facts : l \notin DOMAIN method.body.instructions

\* A step of the analysis whose transfer or whose merge fails ends the lift
\* with that error
ErrorStep ==
    (phase = "analyzing" /\ dirty # {}) =>
        LET l == Min(dirty)
            r == analyze_location(method.body, l, facts[l])
            st == propagate([facts |-> facts, dirty |-> dirty \ {l}, err |-> "None"],
                            r.v.affected_locations)
        IN /\ (l \in DOMAIN method.body.instructions /\ ~IsOk(Run(l))
                 /\ Run(l).err = "ExecutionError") =>
                    (phase' = "done" /\ result' = Failed("ExecutionError"))
           /\ ~IsOk(r) => (phase' = "done" /\ result' = Failed(r.err))
           /\ (IsOk(r) /\ st.err # "None") =>
                    (phase' = "done" /\ result' = Failed("MergeError"))

\* C20: when the transfer function or the frame merge fails at a step, the
\* lift returns that error (ExecutionError for the instruction semantics,
\* MergeError for the merge), nothing runs after that step, and an error
\* carries no IR map and no graph.
ErrorsPropagate ==
    /\ [][ErrorStep]_vars
    /\ [][phase # "done"]_vars
    /\ [](result.kind = "Err" =>
            /\ phase = "done"
            /\ result.instructions = EmptyMap
            /\ result.control_flow_graph = EmptyMap)

\* The second call of one subroutine meets the return address of the first:
\* the merge fails after several steps that had lifted instructions
ErrorsPropagateWitness ==
    /\ phase = "done"
    /\ method = TwoCallsMethod
    /\ result = Failed("MergeError")
    /\ transfers >= 4
    /\ 7 \in DOMAIN ir_instructions

\* ------------------------------------------------------ properties: determinism
\* The driver's loop run from st to its end, the smallest dirty location first:
\* st holds the facts, the dirty set, the IR map, the edges and the first error
RECURSIVE run_to_end(_, _)
run_to_end(body, st) ==
    IF st.err # "None" \/ st.dirty = {} THEN st
    ELSE LET location == Min(st.dirty)
             r == analyze_location(body, location, st.facts[location])
         IN IF ~IsOk(r) THEN [st EXCEPT !.err = r.err]
            ELSE LET p == propagate([facts |-> st.facts,
                                     dirty |-> st.dirty \ {location},
                                     err |-> "None"],
                                    r.v.affected_locations)
                 IN run_to_end(body,
                               [facts |-> p.facts, dirty |-> p.dirty, err |-> p.err,
                                ir |-> insert_ir(st.ir, location, r.v.ir_instruction),
                                edges |-> st.edges \cup r.v.edges])

\* A second run of generate_moka_ir on m, its edge set handed out in one fixed
\* order
SecondRun(m) ==
    IF ~IsOk(for_method(m)) THEN Failed(for_method(m).err)
    ELSE LET body == for_method(m).v
             first_pc == list_entry_point(body.instructions)
             frame == new_frame(m.is_static, m.params, body.max_locals, body.max_stack)
         IN IF first_pc = <<>> THEN Failed("MalformedControlFlow")
            ELSE IF ~IsOk(frame) THEN Failed(frame.err)
            ELSE LET end == run_to_end(body,
                                       [facts |-> MapPut(EmptyMap, first_pc[1], frame.v),
                                        dirty |-> {first_pc[1]}, err |-> "None",
                                        ir |-> EmptyMap, edges |-> {}])
                     cfg == from_edges(CHOOSE es \in orderings(end.edges) : TRUE)
                 IN IF end.err # "None" THEN Failed(end.err)
                    ELSE IF cfg.panicked THEN Panicked("Duplicate edge")
                    ELSE Lifted(end.ir, cfg)

\* C21: lifting is deterministic: the outcome of a run is the outcome of any
\* other run on the same method, the same error or the same IR map entry by
\* entry and the same nodes and labelled edges, whatever the order in which
\* the hash set of edges hands out its elements.
LiftIsDeterministic ==
    phase = "done" =>
        /\ result = SecondRun(method)
        /\ result.kind = "Ok" =>
              \A es \in orderings(control_flow_edges) :
                  /\ nodes(from_edges(es)) = nodes(Cfg)
                  /\ edges(from_edges(es)) = edges(Cfg)

\* The branch method lifted: six edges, handed out in any of their orders
LiftIsDeterministicWitness ==
    /\ Lifted_ok
    /\ method = BranchPhiMethod
    /\ Cardinality(control_flow_edges) = 6
    /\ Cardinality(DOMAIN result.instructions) = 6

\* ------------------------------------------------------ properties: joins
\* The identifiers that the frames reaching s leave in operand-stack slot i
LeftInSlot(s, i) ==
    UNION {f.operand_stack[i].arg.ids : f \in Range(Incoming(s))}

\* The instructions that pop the top operand into their lifted instruction
Consumers == {"AReturn", "IReturn", "AThrow", "IfNull", "IfGe", "LookupSwitch",
              "GetField"}

\* C22: at a join point reached along paths that leave different definitions
\* in one operand-stack slot, the instruction that consumes the slot receives
\* the Phi of exactly those definitions; in iload_0; ifge L1; iconst_m1;
\* goto L2; L1: iconst_1; L2: ireturn the Return at the ireturn carries
\* Phi({Def(pc of iconst_m1), Def(pc of iconst_1)}).
PhiAtJoin ==
    /\ Lifted_ok =>
          \A p \in DOMAIN result.instructions :
              LET st == facts[p].operand_stack
                  top == Len(st)
              IN (/\ method.body.instructions[p].op \in Consumers
                  /\ Cardinality(LeftInSlot(p, top)) >= 2) =>
                     result.instructions[p].args[1] = Phi(LeftInSlot(p, top))
    /\ (Lifted_ok /\ method = BranchPhiMethod) =>
          /\ result.instructions[9] = IRReturn(<<Phi({Def(4), Def(8)})>>)
          /\ LeftInSlot(9, 1) = {Def(4), Def(8)}

\* The ireturn of the branch method, reached from the goto and from iconst_1
PhiAtJoinWitness ==
    /\ Lifted_ok
    /\ method = BranchPhiMethod
    /\ {e[1] : e \in {x \in control_flow_edges : x[2] = 9}} = {5, 8}
    /\ result.instructions[9].ir = "Return"
    /\ result.instructions[9].args[1].t = "Phi"

\* ------------------------------------------------------ properties: Display
\* switch <arg> { k1 => pc1, ..., else => default }
SwitchText(match_value, default, branches) ==
    <<Lit("switch ")>> \o fmt_argument(match_value) \o <<Lit(" { ")>>
    \o fmt_branches(branches)
    \o (IF branches = <<>> THEN <<Lit("else => ")>> ELSE <<Lit(", else => ")>>)
    \o <<PcText(default)>> \o <<Lit(" }")>>

\* C23: the text of a Switch is `switch <arg> { k1 => pc1, ..., else =>
\* default }`: the match value, then in the braces every branch as
\* `key => target` in stored order separated by `, `, and last `else => `
\* followed by the default PC.
SwitchDisplay ==
    (ret.fn = "fmt" /\ call.insn.ir = "Switch" /\ call.insn.branches # <<>>) =>
        ret.text = SwitchText(call.insn.args[1], call.insn.target, call.insn.branches)

\* ------------------------------------------------------ properties: the list
\* C24: entry_point returns the entry with the smallest PC (None on the empty
\* list), next_pc_of(pc) the smallest key strictly greater than pc (None when
\* no key is greater), and get / instruction_at(pc) the instruction stored at
\* pc exactly when pc is a key.
ListAccess ==
    ret.fn = "list" =>
        LET l == call.instructions
            K == DOMAIN l
            pc == call.pc
        IN /\ (K = {}) <=> (ret.entry_point = <<>>)
           /\ K # {} =>
                 /\ ret.entry_point[1][1] \in K
                 /\ \A k \in K : ret.entry_point[1][1] <= k
                 /\ ret.entry_point[1][2] = l[ret.entry_point[1][1]]
           /\ (ret.next_pc_of = <<>>) <=> (~\E k \in K : k > pc)
           /\ ret.next_pc_of # <<>> =>
                 /\ ret.next_pc_of[1] \in K
                 /\ ret.next_pc_of[1] > pc
                 /\ ~\E k \in K : pc < k /\ k < ret.next_pc_of[1]
           /\ (pc \in K) <=> (ret.get # <<>>)
           /\ pc \in K => ret.get = <<l[pc]>>
           /\ ret.instruction_at = ret.get

\* A list with a gap after its first key, asked about a PC inside the gap
ListAccessWitness ==
    /\ ret.fn = "list"
    /\ DOMAIN call.instructions = {1, 3}
    /\ call.pc = 2
    /\ ret.entry_point = <<<<1, call.instructions[1]>>>>
    /\ ret.next_pc_of = <<3>>
    /\ ret.get = <<>>

\* ------------------------------------------------------ properties: descriptors
\* C25: MethodDescriptor::from_str returns an error for the empty string, for
\* a descriptor without return type after `)`, with characters after the
\* return type, with an object type that lacks its closing `;`, and with `V`
\* as a parameter type; for a well-formed descriptor it returns the parameter
\* types in source order and the return type.
DescriptorParsing ==
    ret.fn = "from_str" =>
        IF call.shape = "well_formed"
        THEN ret.parsed = Ok([parameters_types |-> call.parameters_types,
                              return_type |-> call.return_type])
        ELSE ~IsOk(ret.parsed) /\ ret.parsed.err = "InvalidDescriptor"

\* ([[La;La/b)V: the second class name runs into the `)` and is never closed
DescriptorParsingWitness ==
    /\ ret.fn = "from_str"
    /\ call.shape = "unclosed_object"
    /\ call.text = <<"(", "[", "[", "L", "a", ";", "L", "a", "/", "b", ")", "V">>
    /\ ~IsOk(ret.parsed)

\* ------------------------------------------------------ properties: emission
\* C26: the IR instruction stored at a PC is the one the transfer function
\* produces from the frame now stored at that PC, for every PC that is not
\* waiting to be analysed again; after a successful analysis no PC is waiting,
\* so no PC keeps an instruction emitted from a superseded frame.
EmissionIsFinal ==
    /\ phase = "analyzing" =>
          \A p \in DOMAIN facts \ dirty :
              /\ p \in DOMAIN ir_instructions
              /\ p \in DOMAIN method.body.instructions
              /\ IsOk(Run(p))
              /\ ir_instructions[p] = Run(p).v[1]
    /\ Lifted_ok =>
          /\ DOMAIN result.instructions = DOMAIN facts
          /\ \A p \in DOMAIN facts :
                IsOk(Run(p)) /\ result.instructions[p] = Run(p).v[1]

\* The test of the loop was lifted from the entry frame first and again after
\* the loop's store had reached the head: it holds the Phi
EmissionIsFinalWitness ==
    /\ Lifted_ok
    /\ method = RetestLoopMethod
    /\ transfers > Cardinality(DOMAIN method.body.instructions)
    /\ result.instructions[1] = IRJump(<<Phi({Arg(0), Def(5)})>>, 5)

\* ------------------------------------------------------ properties: fall-through
\* The handlers of the entries that cover p
HandlersOf(p) ==
    {it.handler_pc : it \in {x \in Range(method.body.exception_table) : covers(x, p)}}

\* C27: an instruction lifted to Nop has exactly one successor, the next PC
\* of the list through an Unconditional edge, and no exception successor even
\* under a covering entry; a Definition that is neither a throw nor a
\* subroutine call has that Unconditional fall-through successor and one
\* exception successor per covering handler.
FallThroughEdges ==
    \A p \in Analysable :
        (IsOk(Run(p)) /\ list_next_pc_of(method.body.instructions, p) # <<>>) =>
            LET ir == Run(p).v[1]
                f == Run(p).v[2]
                n == list_next_pc_of(method.body.instructions, p)[1]
                out == Transfer(p)
            IN /\ ir.ir = "Nop" =>
                     /\ out = Ok(<<<<<<p, n, Unconditional>>, f>>>>)
                     /\ Lifted_ok => CfgEdgesFrom(p) = {<<p, n, Unconditional>>}
               /\ (ir.ir = "Definition" /\ ir.expr \notin {"Throw", "Subroutine"}) =>
                     /\ IsOk(out)
                     /\ Len(out.v) = Cardinality(HandlersOf(p)) + 1
                     /\ out.v[Len(out.v)] = <<<<p, n, Unconditional>>, f>>
                     /\ \A i \in 1..(Len(out.v) - 1) : out.v[i][1][3].ct = "Exception"
                     /\ {out.v[i][1][2] : i \in 1..(Len(out.v) - 1)} = HandlersOf(p)
                     /\ Lifted_ok =>
                           /\ <<p, n, Unconditional>> \in CfgEdgesFrom(p)
                           /\ {e[2] : e \in {x \in CfgEdgesFrom(p) :
                                                x[3].ct = "Exception"}} = HandlersOf(p)
                           /\ Cardinality(CfgEdgesFrom(p)) = Cardinality(HandlersOf(p)) + 1

\* An aload under a handler entry, with its fall-through edge only, and a
\* getfield under three entries for two handlers
FallThroughEdgesWitness ==
    /\ Lifted_ok
    /\ method = TwoHandlersMethod
    /\ HandlersOf(0) = {5}
    /\ CfgEdgesFrom(0) = {<<0, 1, Unconditional>>}
    /\ HandlersOf(1) = {5, 6}
    /\ Cardinality(CfgEdgesFrom(1)) = 3

\* ------------------------------------------------------ properties: panics
\* C28: the edge set accumulated during the analysis never holds two triples
\* with one (src, dst) and different labels, so from_edges called by generate
\* never panics with `Duplicate edge` and every failure of a lift is an Err.
NoDuplicateEdge ==
    /\ \A e1, e2 \in control_flow_edges :
          (e1[1] = e2[1] /\ e1[2] = e2[2]) => e1 = e2
    /\ result.kind # "Panic"
    /\ phase = "done" => result.kind \in {"Ok", "Err"}

\* ------------------------------------------------------ properties: the entry
\* C29: for every successfully lifted method the PC returned by the graph's
\* entry_point() is the PC at which the analysis started, the smallest key of
\* the instruction list, has an entry in the IR map and is a node of the graph.
EntryPointIsStart ==
    Lifted_ok =>
        /\ <<entry_point(Cfg)>> = list_entry_point(method.body.instructions)
        /\ entry_point(Cfg) \in DOMAIN result.instructions
        /\ entry_point(Cfg) \in Range(nodes(Cfg))

====
